---------------------------- MODULE Spec2Model ----------------------------
(***************************************************************************)
(* A model of ternary/plotting.py: the lattice enumeration, the            *)
(* projection, the hexagonal cell geometry, the colour mapping and the     *)
(* heatmap drivers.  Every call is a two-step behaviour: Init picks the    *)
(* function and its arguments (pc = "call"), the function's action         *)
(* computes its return value or the exception it raises together with its  *)
(* effect on the drawing surface (pc = "return").                          *)
(*                                                                         *)
(* Arithmetic is exact.  A Cartesian point is a pair <<X, W>> of integers   *)
(* that stands for (X / 12, W * sqrt(3) / 12): every abscissa the module    *)
(* computes is a multiple of 1/4 and every ordinate a multiple of           *)
(* sqrt(3)/6.  A quotient is a pair <<n, d>> in lowest terms with d > 0.    *)
(***************************************************************************)
EXTENDS Integers, Sequences, FiniteSets

VARIABLES pc, call, ret, ax, d, calls

vars == <<pc, call, ret, ax, d, calls>>

(* ------------------------------ bounds --------------------------------- *)

MaxSteps == 4

MaxVal == 1

MaxEntries == 2

MaxPoints == 3

MaxArity == 4

MaxHeatSteps == 2

(* --------------------------- Python values ----------------------------- *)

None == <<>>

Ok(v) == [kind |-> "ok", val |-> v]

Raise(e) == [kind |-> e]

NoReturn == [kind |-> "none"]

Num(n) == [t |-> "num", n |-> n]

NpNum(n) == [t |-> "npnum", n |-> n]

Tuple(s) == [t |-> "tuple", items |-> s]

NdArray(s) == [t |-> "ndarray", items |-> s]

IsScalar(p) == p.t \in {"num", "npnum"}

\* range(a, b) as the sequence a, a+1, ..., b-1
Range(a, b) == [k \in 1..(IF b > a THEN b - a ELSE 0) |-> a + k - 1]

RECURSIVE Gcd(_, _)
Gcd(m, n) == IF n = 0 THEN m ELSE Gcd(n, m % n)

Abs(n) == IF n < 0 THEN -n ELSE n

\* n / float(d): the quotient in lowest terms, or the division error
Divide(n, q) ==
    IF q = 0 THEN Raise("ZeroDivisionError")
    ELSE LET g == Gcd(Abs(n), Abs(q))
             sg == IF q < 0 THEN -1 ELSE 1
         IN  Ok(<<(sg * n) \div g, (sg * q) \div g>>)

Min(S) == CHOOSE m \in S : \A n \in S : m <= n

Max(S) == CHOOSE m \in S : \A n \in S : m >= n

RECURSIVE SumSeq(_)
SumSeq(xs) == IF xs = <<>> THEN 0 ELSE Head(xs) + SumSeq(Tail(xs))

(* ------------------------------ helpers -------------------------------- *)

\* zip(*l) for a list l of pairs
unzip(l) ==
    IF l = <<>> THEN <<>>
    ELSE << [k \in 1..Len(l) |-> l[k][1]], [k \in 1..Len(l) |-> l[k][2]] >>

\* normalize dividing by the largest component instead of the sum
normalize_by_max(xs) ==
    LET s == Max({xs[k] : k \in 1..Len(xs)})
    IN  IF s = 0 THEN Raise("ZeroDivisionError")
        ELSE Ok([k \in 1..Len(xs) |-> Divide(xs[k], s).val])

normalize(xs) ==
    LET s == SumSeq(xs)
    IN  IF s = 0 THEN Raise("ZeroDivisionError")
        ELSE Ok([k \in 1..Len(xs) |-> Divide(xs[k], s).val])

(* -------------------------- lattice enumeration ------------------------ *)

RECURSIVE InnerLoop(_, _, _)
InnerLoop(steps, x1, x2s) ==
    IF x2s = <<>> THEN <<>>
    ELSE LET x2 == Head(x2s)
             x3 == steps - x1 - x2
         IN  <<<<x1, x2, x3>>>> \o InnerLoop(steps, x1, Tail(x2s))

\* the outer loop with the inner bound not shortened when the boundary is excluded
RECURSIVE OuterLoop_inner_inclusive(_, _, _)
OuterLoop_inner_inclusive(steps, start, x1s) ==
    IF x1s = <<>> THEN <<>>
    ELSE LET x1 == Head(x1s)
         IN  InnerLoop(steps, x1, Range(start, steps + 1 - x1))
                \o OuterLoop_inner_inclusive(steps, start, Tail(x1s))

RECURSIVE OuterLoop(_, _, _)
OuterLoop(steps, start, x1s) ==
    IF x1s = <<>> THEN <<>>
    ELSE LET x1 == Head(x1s)
         IN  InnerLoop(steps, x1, Range(start, steps + (1 - start) - x1))
                \o OuterLoop(steps, start, Tail(x1s))

\* simplex_points with the boundary test inverted
simplex_points_flipped(steps, boundary) ==
    LET start == IF boundary THEN 1 ELSE 0
    IN  OuterLoop(steps, start, Range(start, steps + (1 - start)))

simplex_points(steps, boundary) ==
    LET start == IF ~boundary THEN 1 ELSE 0
    IN  OuterLoop(steps, start, Range(start, steps + (1 - start)))

(* ------------------------------ projection ----------------------------- *)

\* SQRT3OVER2 * c, an ordinate: c * sqrt(3)/2 = 6 c * sqrt(3)/12
SQRT3OVER2(c) == 6 * c

\* p[0], p[1], p[2] need a subscriptable p of length >= 3: a Python number
\* raises TypeError, a numpy scalar or a short sequence IndexError.  Then
\* x = 0.5 * (2 * b + c) = 6 (2 b + c) / 12 and y = SQRT3OVER2 * c on numbers,
\* elementwise on the rows of an array; on tuples 2 * b + c is a tuple and
\* 0.5 * (...) a TypeError
project_point(p) ==
    IF p.t = "num" THEN Raise("TypeError")
    ELSE IF p.t = "npnum" THEN Raise("IndexError")
    ELSE IF Len(p.items) < 3 THEN Raise("IndexError")
    ELSE LET b == p.items[2]
             c == p.items[3]
         IN  IF IsScalar(b) /\ IsScalar(c)
             THEN Ok(<<6 * (2 * b.n + c.n), SQRT3OVER2(c.n)>>)
             ELSE IF b.t = "ndarray" /\ c.t = "ndarray"
             THEN Ok(<< [k \in 1..Len(b.items) |-> 6 * (2 * b.items[k].n + c.items[k].n)],
                        [k \in 1..Len(c.items) |-> SQRT3OVER2(c.items[k].n)] >>)
             ELSE Raise("TypeError")

\* map(project_point, s): the list of results, or the first exception
RECURSIVE MapProjectPoint(_)
MapProjectPoint(items) ==
    IF items = <<>> THEN Ok(<<>>)
    ELSE LET r == project_point(Head(items))
         IN  IF r.kind # "ok" THEN r
             ELSE LET rest == MapProjectPoint(Tail(items))
                  IN  IF rest.kind # "ok" THEN rest
                      ELSE Ok(<<r.val>> \o rest.val)

project(s) ==
    LET attempt == IF IsScalar(s) THEN Raise("TypeError")
                   ELSE MapProjectPoint(s.items)
    IN  IF attempt.kind = "ok" THEN Ok(unzip(attempt.val))
        ELSE IF attempt.kind = "TypeError" THEN project_point(s)
        ELSE IF attempt.kind = "IndexError" THEN project_point(s)
        ELSE attempt

(* ------------------------------ colour scale --------------------------- *)

\* the argument handed to the colour map, which identifies the colour
cmap(t) == t

\* colormapper without the test for an empty domain
colormapper_unguarded(x, a, b) ==
    LET t == Divide(x - a, b - a)
    IN  IF t.kind = "ok" THEN Ok(cmap(t.val)) ELSE t

colormapper(x, a, b) ==
    IF b - a = 0 THEN Ok(cmap(<<0, 1>>))
    ELSE LET t == Divide(x - a, b - a)
         IN  IF t.kind = "ok" THEN Ok(cmap(t.val)) ELSE t

(* ------------------------------ cell geometry -------------------------- *)

VecAdd(u, v) == <<u[1] + v[1], u[2] + v[2]>>

VecSub(u, v) == <<u[1] - v[1], u[2] - v[2]>>

\* u / 2., used on _i_vec and _i_vec_down only
VecHalf(u) == <<u[1] \div 2, u[2] \div 2>>

\* (i / 2. + j, SQRT3OVER2 * i)
i_j_to_x_y(i, j) == <<6 * i + 12 * j, SQRT3OVER2(i)>>

\* (0, 1/sqrt(3)) = (0, 4 sqrt(3)/12)
_alpha == <<0, 4>>

\* (1/2, 1/(2 sqrt(3))) = (6/12, 2 sqrt(3)/12)
_deltaup == <<6, 2>>

\* _deltadown with the sign of its ordinate lost
_deltadown_unsigned == <<6, 2>>

\* (1/2, -1/(2 sqrt(3)))
_deltadown == <<6, -2>>

\* (1/2, sqrt(3)/2) = (6/12, 6 sqrt(3)/12)
_i_vec == <<6, 6>>

\* (1/2, -sqrt(3)/2)
_i_vec_down == <<6, -6>>

_deltaX_vec == <<_deltadown[1], 0>>

\* hex_coordinates without the three corner cases
hex_coordinates_no_corners(i, j, steps) ==
    LET ij == i_j_to_x_y(i, j)
        c0 == << VecAdd(ij, _alpha), VecAdd(ij, _deltaup), VecAdd(ij, _deltadown),
                 VecSub(ij, _alpha), VecSub(ij, _deltaup), VecSub(ij, _deltadown) >>
        c1 == IF i = 0 /\ (j # steps) /\ (j # 0)
              THEN << VecSub(ij, _deltaX_vec), VecSub(ij, _deltadown), VecAdd(ij, _alpha),
                      VecAdd(ij, _deltaup), VecAdd(ij, _deltaX_vec) >>
              ELSE c0
        c2 == IF j = 0 /\ (i # steps) /\ (i # 0)
              THEN << VecAdd(ij, VecHalf(_i_vec)), VecAdd(ij, _deltaup), VecAdd(ij, _deltadown),
                      VecSub(ij, _alpha), VecSub(ij, VecHalf(_i_vec)) >>
              ELSE c1
        c3 == IF i + j = steps /\ (i # 0) /\ (j # 0)
              THEN << VecAdd(ij, VecHalf(_i_vec_down)), VecSub(ij, _alpha), VecSub(ij, _deltaup),
                      VecSub(ij, _deltadown), VecSub(ij, VecHalf(_i_vec_down)) >>
              ELSE c2
    IN  c3

hex_coordinates(i, j, steps) ==
    LET ij == i_j_to_x_y(i, j)
        c0 == << VecAdd(ij, _alpha), VecAdd(ij, _deltaup), VecAdd(ij, _deltadown),
                 VecSub(ij, _alpha), VecSub(ij, _deltaup), VecSub(ij, _deltadown) >>
        c1 == IF i = 0 /\ (j # steps) /\ (j # 0)
              THEN << VecSub(ij, _deltaX_vec), VecSub(ij, _deltadown), VecAdd(ij, _alpha),
                      VecAdd(ij, _deltaup), VecAdd(ij, _deltaX_vec) >>
              ELSE c0
        c2 == IF j = 0 /\ (i # steps) /\ (i # 0)
              THEN << VecAdd(ij, VecHalf(_i_vec)), VecAdd(ij, _deltaup), VecAdd(ij, _deltadown),
                      VecSub(ij, _alpha), VecSub(ij, VecHalf(_i_vec)) >>
              ELSE c1
        c3 == IF i + j = steps /\ (i # 0) /\ (j # 0)
              THEN << VecAdd(ij, VecHalf(_i_vec_down)), VecSub(ij, _alpha), VecSub(ij, _deltaup),
                      VecSub(ij, _deltadown), VecSub(ij, VecHalf(_i_vec_down)) >>
              ELSE c2
        c4 == IF i = steps /\ j = 0
              THEN << ij, VecAdd(ij, VecHalf(_i_vec_down)), VecSub(ij, _alpha),
                      VecSub(ij, VecHalf(_i_vec)) >>
              ELSE c3
        c5 == IF i = 0 /\ j = 0
              THEN << ij, VecAdd(ij, VecHalf(_i_vec)), VecAdd(ij, _deltaup),
                      VecAdd(ij, _deltaX_vec) >>
              ELSE c4
        c6 == IF j = steps /\ i = 0
              THEN << ij, VecSub(ij, _deltaX_vec), VecSub(ij, _deltadown),
                      VecSub(ij, VecHalf(_i_vec_down)) >>
              ELSE c5
    IN  c6


(* ------------------------------ dictionaries --------------------------- *)

\* a dict is the sequence of its <<key, value>> items, keys distinct
DictKeys(dd) == {dd[k][1] : k \in 1..Len(dd)}

DictValues(dd) == {dd[k][2] : k \in 1..Len(dd)}

DictGet(dd, key) == dd[CHOOSE k \in 1..Len(dd) : dd[k][1] = key][2]

\* dd[key] = value
DictSet(dd, key, value) ==
    IF key \in DictKeys(dd)
    THEN [k \in 1..Len(dd) |-> IF dd[k][1] = key THEN <<key, value>> ELSE dd[k]]
    ELSE Append(dd, <<key, value>>)

(* ------------------------------ drawing surface ------------------------ *)

NewAxes == [lines |-> <<>>, fills |-> <<>>, colorbars |-> <<>>]

AxPlot(axes, xs, ys) == [axes EXCEPT !.lines = Append(@, [x |-> xs, y |-> ys])]

AxFill(axes, xs, ys, color) ==
    [axes EXCEPT !.fills = Append(@, [x |-> xs, y |-> ys, facecolor |-> color, edgecolor |-> color])]

AxColorbar(axes, a, b) == [axes EXCEPT !.colorbars = Append(@, [vmin |-> a, vmax |-> b])]

(* ------------------------------ trajectories --------------------------- *)

\* xs, ys = project(t); ax.plot(xs, ys)
plot(t, axes) ==
    LET r == project(t)
    IN  IF r.kind # "ok" THEN [ret |-> r, ax |-> axes]
        ELSE IF Len(r.val) # 2 THEN [ret |-> Raise("ValueError"), ax |-> axes]
        ELSE [ret |-> Ok("ax"), ax |-> AxPlot(axes, r.val[1], r.val[2])]

(* ------------------------------ heatmaps ------------------------------- *)

\* the loop over d.items(): one filled polygon per item
RECURSIVE FillLoop(_, _, _, _, _, _)
FillLoop(items, dd, steps, a, b, axes) ==
    IF items = <<>> THEN [ret |-> Ok("ax"), ax |-> axes]
    ELSE LET i == Head(items)[1][1]
             j == Head(items)[1][2]
             vertices == hex_coordinates(i, j, steps)
             xy == unzip(vertices)
             color == colormapper(DictGet(dd, <<i, j>>), a, b)
         IN  IF color.kind # "ok" THEN [ret |-> color, ax |-> axes]
             ELSE FillLoop(Tail(items), dd, steps, a, b,
                           AxFill(axes, xy[1], xy[2], color.val))

\* heatmap taking the minimum and maximum of the data before it looks at min_max_scale
heatmap_min_first(dd, steps, min_max_scale, axes) ==
    IF dd = <<>>
    THEN [ret |-> Raise("ValueError"), ax |-> axes]
    ELSE LET a == IF min_max_scale = None THEN Min(DictValues(dd)) ELSE min_max_scale[1]
             b == IF min_max_scale = None THEN Max(DictValues(dd)) ELSE min_max_scale[2]
             filled == FillLoop(dd, dd, steps, a, b, axes)
         IN  IF filled.ret.kind # "ok" THEN filled
             ELSE [ret |-> Ok("ax"), ax |-> AxColorbar(filled.ax, a, b)]

heatmap(dd, steps, min_max_scale, axes) ==
    IF min_max_scale = None /\ dd = <<>>
    THEN [ret |-> Raise("ValueError"), ax |-> axes]
    ELSE LET a == IF min_max_scale = None THEN Min(DictValues(dd)) ELSE min_max_scale[1]
             b == IF min_max_scale = None THEN Max(DictValues(dd)) ELSE min_max_scale[2]
             filled == FillLoop(dd, dd, steps, a, b, axes)
         IN  IF filled.ret.kind # "ok" THEN filled
             ELSE [ret |-> Ok("ax"), ax |-> AxColorbar(filled.ax, a, b)]

\* the scalar functions handed to plot_heatmap
Apply(func, p) ==
    CASE func = "const" -> 0
      [] func = "zeros" -> Cardinality({k \in 1..Len(p) : p[k][1] = 0})
      [] func = "first" -> IF 2 * p[1][1] >= p[1][2] THEN 1 ELSE 0

\* the loop over simplex_points: d[(x1, x2)] = func(normalize([x1, x2, x3]))
RECURSIVE SampleLoop(_, _, _, _)
SampleLoop(func, pts, dd, called) ==
    IF pts = <<>> THEN [ret |-> Ok(None), d |-> dd, calls |-> called]
    ELSE LET x1 == Head(pts)[1]
             x2 == Head(pts)[2]
             x3 == Head(pts)[3]
             p == normalize(<<x1, x2, x3>>)
         IN  IF p.kind # "ok" THEN [ret |-> p, d |-> dd, calls |-> called]
             ELSE SampleLoop(func, Tail(pts),
                             DictSet(dd, <<x1, x2>>, Apply(func, p.val)),
                             Append(called, p.val))

plot_heatmap(func, steps, boundary, min_max_scale, axes) ==
    LET sampled == SampleLoop(func, simplex_points(steps, boundary), <<>>, <<>>)
    IN  IF sampled.ret.kind # "ok"
        THEN [ret |-> sampled.ret, d |-> sampled.d, calls |-> sampled.calls, ax |-> axes]
        ELSE LET drawn == heatmap(sampled.d, steps, min_max_scale, axes)
             IN  [ret |-> IF drawn.ret.kind = "ok" THEN Ok(None) ELSE drawn.ret,
                  d |-> sampled.d, calls |-> sampled.calls, ax |-> drawn.ax]

(* ------------------------------ arguments ------------------------------ *)

StepsSet == 0..MaxSteps

Values == 0..MaxVal

Scalars == (0 - MaxVal - 1)..(MaxVal + 1)

\* min_max_scale: not given, an empty domain, a domain and a reversed one
ScaleSet == {None, <<0, 0>>, <<0, MaxVal>>, <<MaxVal, 0>>}

Funcs == {"const", "zeros", "first"}

\* number tuples of arity n
NumTuples(n) == [1..n -> Values]

AsTuple(s) == Tuple([k \in 1..Len(s) |-> Num(s[k])])

AsArray(s) == NdArray([k \in 1..Len(s) |-> NpNum(s[k])])

SinglePoints == UNION {NumTuples(n) : n \in 0..MaxArity}

\* the points trajectories are made of: the corners, a short and a long point
PointPool == {<<1, 0, 0>>, <<0, 1, 0>>, <<0, 0, 1>>, <<1, 0>>, <<0, 1, 0, 1>>}

Trajectories == UNION {[1..n -> PointPool] : n \in 0..MaxPoints}

Rectangular(t) == \A k \in 1..Len(t) : Len(t[k]) = Len(t[1])

ProjectArgs ==
    {AsTuple(s) : s \in SinglePoints} \cup {AsArray(s) : s \in SinglePoints}
        \cup {Tuple([k \in 1..Len(t) |-> AsTuple(t[k])]) : t \in Trajectories}
        \cup {NdArray([k \in 1..Len(t) |-> AsArray(t[k])]) :
                 t \in {u \in Trajectories : Len(u) > 0 /\ Rectangular(u)}}

LexLess(p, q) == p[1] < q[1] \/ (p[1] = q[1] /\ p[2] < q[2])

Lattice(steps) == {<<i, j>> : i \in 0..steps, j \in 0..steps}

\* dicts of at most n items over the keys, inserted in ascending order of key
RECURSIVE DictsOver(_, _)
DictsOver(keys, n) ==
    IF n = 0 THEN {<<>>}
    ELSE LET shorter == DictsOver(keys, n - 1)
         IN  shorter \cup
             {Append(dd, <<k, v>>) :
                 dd \in {e \in shorter : Len(e) = n - 1},
                 k \in keys, v \in Values}

Ascending(dd) == \A m \in 1..(Len(dd) - 1) : LexLess(dd[m][1], dd[m + 1][1])

HeatmapDicts(steps) ==
    {dd \in DictsOver({k \in Lattice(steps) : k[1] + k[2] <= steps}, MaxEntries) :
        Ascending(dd)}

Calls ==
    {[fn |-> "simplex_points", steps |-> s, boundary |-> bd] :
        s \in StepsSet, bd \in BOOLEAN}
    \cup {[fn |-> "project", s |-> s] : s \in ProjectArgs}
    \cup {[fn |-> "plot", t |-> s] : s \in ProjectArgs}
    \cup {[fn |-> "colormapper", x |-> x, a |-> a, b |-> b] :
        x \in Scalars, a \in Scalars, b \in Scalars}
    \cup {[fn |-> "hex_coordinates", i |-> k[1], j |-> k[2], steps |-> s] :
        k \in Lattice(MaxSteps), s \in StepsSet}
    \cup UNION {{[fn |-> "heatmap", d |-> dd, steps |-> s, min_max_scale |-> m] :
        dd \in HeatmapDicts(s), m \in ScaleSet} : s \in 0..MaxHeatSteps}
    \cup {[fn |-> "plot_heatmap", func |-> f, steps |-> s, boundary |-> bd,
           min_max_scale |-> m] :
        f \in Funcs, s \in StepsSet, bd \in BOOLEAN, m \in ScaleSet}

(* ------------------------------ behaviours ----------------------------- *)

Init ==
    /\ pc = "call"
    /\ call \in Calls
    /\ ret = NoReturn
    /\ ax = NewAxes
    /\ d = <<>>
    /\ calls = <<>>

Call_simplex_points ==
    /\ pc = "call" /\ call.fn = "simplex_points"
    /\ ret' = Ok(simplex_points(call.steps, call.boundary))
    /\ pc' = "return"
    /\ UNCHANGED <<call, ax, d, calls>>

Call_project ==
    /\ pc = "call" /\ call.fn = "project"
    /\ ret' = project(call.s)
    /\ pc' = "return"
    /\ UNCHANGED <<call, ax, d, calls>>

Call_plot ==
    /\ pc = "call" /\ call.fn = "plot"
    /\ LET r == plot(call.t, ax)
       IN  ret' = r.ret /\ ax' = r.ax
    /\ pc' = "return"
    /\ UNCHANGED <<call, d, calls>>

Call_colormapper ==
    /\ pc = "call" /\ call.fn = "colormapper"
    /\ ret' = colormapper(call.x, call.a, call.b)
    /\ pc' = "return"
    /\ UNCHANGED <<call, ax, d, calls>>

Call_hex_coordinates ==
    /\ pc = "call" /\ call.fn = "hex_coordinates"
    /\ ret' = Ok(hex_coordinates(call.i, call.j, call.steps))
    /\ pc' = "return"
    /\ UNCHANGED <<call, ax, d, calls>>

Call_heatmap ==
    /\ pc = "call" /\ call.fn = "heatmap"
    /\ LET r == heatmap(call.d, call.steps, call.min_max_scale, ax)
       IN  ret' = r.ret /\ ax' = r.ax
    /\ d' = call.d
    /\ pc' = "return"
    /\ UNCHANGED <<call, calls>>

Call_plot_heatmap ==
    /\ pc = "call" /\ call.fn = "plot_heatmap"
    /\ LET r == plot_heatmap(call.func, call.steps, call.boundary, call.min_max_scale, ax)
       IN  ret' = r.ret /\ ax' = r.ax /\ d' = r.d /\ calls' = r.calls
    /\ pc' = "return"
    /\ UNCHANGED call

Next ==
    \/ Call_simplex_points
    \/ Call_project
    \/ Call_plot
    \/ Call_colormapper
    \/ Call_hex_coordinates
    \/ Call_heatmap
    \/ Call_plot_heatmap

Spec == Init /\ [][Next]_vars

(* ------------------------------ properties ----------------------------- *)

Returned(fn) == pc = "return" /\ call.fn = fn

\* C1: simplex_points(steps, boundary) yields, in strictly ascending order of
\* (x1, x2) and hence each once, exactly the integer triples that sum to steps
\* with all components >= 0 (boundary included) or >= 1 (boundary excluded).
C1_LatticeEnumeration ==
    Returned("simplex_points") =>
        LET out == ret.val
            n == call.steps
            lo == IF call.boundary THEN 0 ELSE 1
        IN  /\ {out[k] : k \in 1..Len(out)} =
                   {t \in (0..n) \X (0..n) \X (0..n) :
                       t[1] >= lo /\ t[2] >= lo /\ t[3] >= lo /\ t[1] + t[2] + t[3] = n}
            /\ \A k \in 1..(Len(out) - 1) : LexLess(out[k], out[k + 1])

C1_Witness ==
    /\ Returned("simplex_points") /\ call.steps = 4 /\ ~call.boundary
    /\ ret.val = << <<1, 1, 2>>, <<1, 2, 1>>, <<2, 1, 1>> >>

\* C2: simplex_points(N, True) yields (N+1)(N+2)/2 triples; simplex_points(N, False)
\* yields (N-1)(N-2)/2 triples when N >= 2 and none when N < 2.
C2_LatticeCount ==
    Returned("simplex_points") =>
        LET n == call.steps
        IN  Len(ret.val) = IF call.boundary THEN ((n + 1) * (n + 2)) \div 2
                           ELSE IF n >= 2 THEN ((n - 1) * (n - 2)) \div 2
                           ELSE 0

C2_Witness ==
    Returned("simplex_points") /\ call.steps = 3 /\ call.boundary /\ Len(ret.val) = 10

OnLattice == call.i >= 0 /\ call.j >= 0 /\ call.i + call.j <= call.steps

IsCorner(i, j, steps) ==
    (i = 0 /\ j = 0) \/ (i = steps /\ j = 0) \/ (i = 0 /\ j = steps)

IsInterior(i, j, steps) == 0 < i /\ 0 < j /\ i + j < steps

\* C3: on the lattice hex_coordinates returns 4 vertices at the three corners,
\* 6 at every interior point and 5 at every other boundary point.
C3_VertexCount ==
    (Returned("hex_coordinates") /\ OnLattice) =>
        Len(ret.val) = IF IsCorner(call.i, call.j, call.steps) THEN 4
                       ELSE IF IsInterior(call.i, call.j, call.steps) THEN 6
                       ELSE 5

C3_Witness ==
    /\ Returned("hex_coordinates") /\ call.steps = 2 /\ call.i = 1 /\ call.j = 1
    /\ Len(ret.val) = 5

PointItems(s) == \A k \in 1..Len(s.items) : IsScalar(s.items[k])

\* the argument is one point of arity other than 3, or a sequence of points one
\* of which has an arity other than 3
\* (the empty sequence counts as a sequence of no points)
Malformed(s) ==
    IF PointItems(s) THEN Len(s.items) \notin {0, 3}
    ELSE \E k \in 1..Len(s.items) : Len(s.items[k].items) # 3

\* C4: project raises a type or index error for every point of arity other than
\* 3, given alone or inside a sequence, and returns no result for it.
C4_WrongArityRaises ==
    (Returned("project") /\ Malformed(call.s)) =>
        ret.kind \in {"TypeError", "IndexError"}

TriplesOnly(s) ==
    /\ ~PointItems(s) \/ s.items = <<>>
    /\ \A k \in 1..Len(s.items) :
          Len(s.items[k].items) = 3 /\ PointItems(s.items[k])

\* C5: project of one triple (a, b, c) is the pair (b + c/2, c * sqrt(3)/2);
\* project of a sequence of n >= 0 triples is two parallel sequences of length
\* n holding the projections in input order.
C5_ProjectShape ==
    /\ (Returned("project") /\ PointItems(call.s) /\ Len(call.s.items) = 3) =>
          ret = Ok(<<12 * call.s.items[2].n + 6 * call.s.items[3].n,
                     6 * call.s.items[3].n>>)
    /\ (Returned("project") /\ TriplesOnly(call.s)) =>
          /\ ret.kind = "ok"
          /\ Len(ret.val) = 2
          /\ Len(ret.val[1]) = Len(call.s.items) /\ Len(ret.val[2]) = Len(call.s.items)
          /\ \A k \in 1..Len(call.s.items) :
                /\ ret.val[1][k] = 12 * call.s.items[k].items[2].n
                                       + 6 * call.s.items[k].items[3].n
                /\ ret.val[2][k] = 6 * call.s.items[k].items[3].n

\* the quotient q, a pair in lowest terms, times m equals n
TimesIs(q, m, n) == q[1] * m = q[2] * n

SumsToOne(p) ==
    \E den \in 1..(MaxSteps + 1) :
        /\ \A k \in 1..Len(p) : den % p[k][2] = 0
        /\ SumSeq([k \in 1..Len(p) |-> p[k][1] * (den \div p[k][2])]) = den

Sampled ==
    LET pts == simplex_points(call.steps, call.boundary)
    IN  /\ ret.kind # "ZeroDivisionError"
        /\ Len(calls) = Len(pts)
        /\ \A k \in 1..Len(pts) :
              /\ Len(calls[k]) = 3
              /\ SumsToOne(calls[k])
              /\ \A m \in 1..3 : TimesIs(calls[k][m], call.steps, pts[k][m])
        /\ Len(d) = Len(pts)
        /\ \A k \in 1..Len(pts) :
              d[k] = << <<pts[k][1], pts[k][2]>>, Apply(call.func, calls[k]) >>
        /\ LET drawn == heatmap(d, call.steps, call.min_max_scale, NewAxes)
           IN  /\ ax = drawn.ax
               /\ ret = IF drawn.ret.kind = "ok" THEN Ok(None) ELSE drawn.ret

\* C6 as stated: for every steps >= 0 and either boundary setting plot_heatmap
\* calls func once per lattice triple on the normalized triple, stores the value
\* under (x1, x2), hands the mapping to heatmap, and no normalization fails.
C6_Original == Returned("plot_heatmap") => Sampled

\* C6: the same for every steps >= 1, and for steps = 0 without the boundary
\* (no triple); for steps = 0 with the boundary the only triple (0, 0, 0) sums
\* to 0, normalize raises ZeroDivisionError, func is not called and nothing is
\* drawn.
C6_Sampling ==
    Returned("plot_heatmap") =>
        IF call.steps = 0 /\ call.boundary
        THEN ret = Raise("ZeroDivisionError") /\ calls = <<>> /\ d = <<>> /\ ax = NewAxes
        ELSE Sampled

C6_Witness ==
    /\ Returned("plot_heatmap") /\ call.steps = 2 /\ call.boundary
    /\ call.func = "zeros" /\ call.min_max_scale = None
    /\ Len(calls) = 6 /\ calls[2] = << <<0, 1>>, <<1, 2>>, <<1, 2>> >>
    /\ d[2] = << <<0, 1>>, 1 >>
    /\ Len(ax.fills) = 6

\* C7: heatmap raises ValueError exactly when d is empty and min_max_scale is
\* not given, and then has added no polygon and no colour bar; an empty d with
\* min_max_scale given raises nothing and fills nothing; a non-empty d gets one
\* filled polygon per entry.
C7_HeatmapDomain ==
    Returned("heatmap") =>
        /\ ret.kind \in {"ok", "ValueError"}
        /\ ret.kind = "ValueError" <=> (call.d = <<>> /\ call.min_max_scale = None)
        /\ ret.kind = "ValueError" => (ax.fills = <<>> /\ ax.colorbars = <<>>)
        /\ (call.d = <<>> /\ call.min_max_scale # None) =>
              (ret.kind = "ok" /\ ax.fills = <<>>)
        /\ call.d # <<>> =>
              /\ ret.kind = "ok"
              /\ Len(ax.fills) = Len(call.d)
              /\ \A k \in 1..Len(call.d) :
                    LET v == hex_coordinates(call.d[k][1][1], call.d[k][1][2], call.steps)
                    IN  ax.fills[k].x = unzip(v)[1] /\ ax.fills[k].y = unzip(v)[2]

C7_Witness ==
    /\ Returned("heatmap") /\ call.d = <<>> /\ call.min_max_scale = None
    /\ ret = Raise("ValueError") /\ ax = NewAxes

\* C8: colormapper(x, a, b) looks up t = (x - a)/(b - a) when b # a (t = 0 at
\* x = a, t = 1 at x = b) and t = 0 when b = a, never dividing by zero; a heatmap
\* whose values are all equal fills every cell with the colour at t = 0.
C8_ColorScale ==
    /\ Returned("colormapper") =>
          /\ ret.kind = "ok"
          /\ call.b # call.a => TimesIs(ret.val, call.b - call.a, call.x - call.a)
          /\ (call.b # call.a /\ call.x = call.a) => ret.val = cmap(<<0, 1>>)
          /\ (call.b # call.a /\ call.x = call.b) => ret.val = cmap(<<1, 1>>)
          /\ call.b = call.a => ret.val = cmap(<<0, 1>>)
    /\ (Returned("heatmap") /\ call.min_max_scale = None
            /\ Cardinality(DictValues(call.d)) = 1) =>
          /\ ret.kind = "ok"
          /\ Len(ax.fills) = Len(call.d)
          /\ \A k \in 1..Len(ax.fills) : ax.fills[k].facecolor = cmap(<<0, 1>>)

C8_Witness ==
    /\ Returned("heatmap") /\ call.min_max_scale = None
    /\ Len(call.d) = 2 /\ DictValues(call.d) = {1}
    /\ \A k \in 1..Len(ax.fills) : ax.fills[k].facecolor = cmap(<<0, 1>>)
    /\ Len(ax.fills) = 2

\* C9: every cell plot_heatmap draws for a lattice triple (x1, x2, x3) is
\* centred at the projection of that triple: i_j_to_x_y(x1, x2) equals
\* project_point((x1, x2, x3)).
C9_CellAtProjection ==
    Returned("plot_heatmap") =>
        \A k \in 1..Len(d) :
            LET x1 == d[k][1][1]
                x2 == d[k][1][2]
                x3 == call.steps - x1 - x2
            IN  Ok(i_j_to_x_y(x1, x2)) = project_point(AsTuple(<<x1, x2, x3>>))

\* the point v = <<X, W>> lies in the closed triangle with corners (0, 0),
\* (steps, 0), (steps/2, steps * sqrt(3)/2): y >= 0, y <= sqrt(3) x,
\* y <= sqrt(3) (steps - x)
InTriangle(v, steps) == v[2] >= 0 /\ v[2] <= v[1] /\ v[2] <= 12 * steps - v[1]

\* C10: for steps >= 1 every vertex hex_coordinates returns for a lattice point
\* lies inside or on the closed triangle (0,0), (steps,0), (steps/2, steps*sqrt(3)/2).
C10_CellsInsideSimplex ==
    (Returned("hex_coordinates") /\ OnLattice /\ call.steps >= 1) =>
        \A k \in 1..Len(ret.val) : InTriangle(ret.val[k], call.steps)

C10_Witness ==
    /\ Returned("hex_coordinates") /\ call.steps = 3 /\ call.i = 1 /\ call.j = 2
    /\ \E k \in 1..Len(ret.val) : ret.val[k][2] = 12 * call.steps - ret.val[k][1]
    /\ \A k \in 1..Len(ret.val) : InTriangle(ret.val[k], call.steps)

=============================================================================
